---- MODULE Spec2Model ----
(***************************************************************************)
(* Model of the NHCMA intake applications:                                 *)
(*   NHCMA_Grants_App_Supabase.py  (organization and student tracks)       *)
(*   NHCMA_Posters_App.py          (poster track)                          *)
(* Text values are sequences of one-character strings, so that strip() and *)
(* split() are computed, not assumed.                                      *)
(***************************************************************************)
EXTENDS Integers, Sequences, FiniteSets, TLC

VARIABLES now, submissions, posters, session_state, pc, run

vars == <<now, submissions, posters, session_state, pc, run>>

(***************************************************************************)
(* Bounds                                                                  *)
(***************************************************************************)
MaxLen == 2
MaxInstant == 10
MaxTime == 3
MaxRecords == 1

(***************************************************************************)
(* Text                                                                    *)
(***************************************************************************)
SP == " "
Chars == {SP, "a"}
Str(n) == UNION {[1..k -> Chars] : k \in 0..n}

Range(s) == {s[i] : i \in 1..Len(s)}

\* s consists of whitespace only (what "empty after trimming" means)
IsBlank(s) == \A i \in 1..Len(s) : s[i] = SP

RECURSIVE lstrip(_)
lstrip(s) == IF s = <<>> THEN s
             ELSE IF Head(s) = SP THEN lstrip(Tail(s)) ELSE s

RECURSIVE rstrip(_)
rstrip(s) == IF s = <<>> THEN s
             ELSE IF s[Len(s)] = SP THEN rstrip(SubSeq(s, 1, Len(s) - 1)) ELSE s

strip_none(s) == s

\* str.strip()
strip(s) == rstrip(lstrip(s))

\* Python truthiness of a str
Truthy(s) == s # <<>>

(***************************************************************************)
(* Deadline gate                                                           *)
(***************************************************************************)
ORG_DEADLINE == 1
STU_DEADLINE == 2

too_late_inclusive(deadline, t) == t >= deadline

too_late_never(deadline, t) == FALSE

\* too_late(deadline): the clock read datetime.now() is the argument t
too_late(deadline, t) == t > deadline

\* st.button(..., disabled=disabled): a disabled button never reports a click
st_button_ignores_disabled(click, disabled) == click

st_button(click, disabled) == click /\ ~disabled

(***************************************************************************)
(* Validation helpers                                                      *)
(***************************************************************************)
PLACEHOLDER == <<"-- Select your school --">>
NETTER == <<"Frank H. Netter MD School of Medicine at Quinnipiac University">>
YALE == <<"Yale School of Medicine">>
SchoolOptions == {PLACEHOLDER, NETTER, YALE}

AppendIf(seq, cond, x) == IF cond THEN Append(seq, x) ELSE seq

\* the labels the student validator can report, in the order it checks them
StudentLabels == <<"Applicant Name", "Medical School (select an option)",
                   "School Email", "Phone", "Project Title">>

\* the labels the organization validator can report, in the order it checks them
OrgLabels == <<"Name of Organization", "Applicant Name", "Applicant Email",
               "Project Title">>

_missing_student_fields_first_only(applicant_name, school, email, phone, project_title) ==
    IF ~Truthy(strip(applicant_name)) THEN <<StudentLabels[1]>>
    ELSE IF ~Truthy(strip(school)) \/ school = PLACEHOLDER THEN <<StudentLabels[2]>>
    ELSE IF ~Truthy(strip(email)) THEN <<StudentLabels[3]>>
    ELSE IF ~Truthy(strip(phone)) THEN <<StudentLabels[4]>>
    ELSE IF ~Truthy(strip(project_title)) THEN <<StudentLabels[5]>>
    ELSE <<>>

_missing_student_fields(applicant_name, school, email, phone, project_title) ==
    LET m1 == AppendIf(<<>>, ~Truthy(strip(applicant_name)), StudentLabels[1])
        m2 == AppendIf(m1, ~Truthy(strip(school)) \/ school = PLACEHOLDER, StudentLabels[2])
        m3 == AppendIf(m2, ~Truthy(strip(email)), StudentLabels[3])
        m4 == AppendIf(m3, ~Truthy(strip(phone)), StudentLabels[4])
        m5 == AppendIf(m4, ~Truthy(strip(project_title)), StudentLabels[5])
    IN  m5

_missing_org_fields_first_only(org_name, applicant_name, email, project_title) ==
    IF ~Truthy(strip(org_name)) THEN <<OrgLabels[1]>>
    ELSE IF ~Truthy(strip(applicant_name)) THEN <<OrgLabels[2]>>
    ELSE IF ~Truthy(strip(email)) THEN <<OrgLabels[3]>>
    ELSE IF ~Truthy(strip(project_title)) THEN <<OrgLabels[4]>>
    ELSE <<>>

_missing_org_fields(org_name, applicant_name, email, project_title) ==
    LET m1 == AppendIf(<<>>, ~Truthy(strip(org_name)), OrgLabels[1])
        m2 == AppendIf(m1, ~Truthy(strip(applicant_name)), OrgLabels[2])
        m3 == AppendIf(m2, ~Truthy(strip(email)), OrgLabels[3])
        m4 == AppendIf(m3, ~Truthy(strip(project_title)), OrgLabels[4])
    IN  m4

\* student_form: "Normalize school: empty string means not selected"
school_norm(school) == IF strip(school) = PLACEHOLDER THEN <<>> ELSE strip(school)

\* number of whitespace-separated words: len(abstract.split())
WordCount(s) ==
    Cardinality({i \in 1..Len(s) : s[i] # SP /\ (i = 1 \/ s[i - 1] = SP)})

WORD_LIMIT == 250

\* poster handler: all((x or "").strip() for x in required)
poster_required_complete(category, lead_author, title, abstract, contact_email) ==
    /\ Truthy(strip(category))
    /\ Truthy(strip(lead_author))
    /\ Truthy(strip(title))
    /\ Truthy(strip(abstract))
    /\ Truthy(strip(contact_email))

abstract_too_long_chars(abstract) == Len(abstract) > WORD_LIMIT

\* poster handler: len(abstract.split()) > 250
abstract_too_long(abstract) == WordCount(abstract) > WORD_LIMIT

(***************************************************************************)
(* Storage                                                                 *)
(***************************************************************************)
SIGNED_URL == "signed-url"
PUBLIC_URL == "public-url"
NO_URL == ""

\* An attachment widget and the storage service's answers to the calls made
\* for it.  file: "none" (nothing attached), "unreadable" (getvalue() and
\* read() give no bytes), "ok".  "-" marks a call that is not reached.
GrantScenarios ==
    { [file |-> "none",       put |-> "-",   sign |-> "-",   public |-> "-"],
      [file |-> "unreadable", put |-> "-",   sign |-> "-",   public |-> "-"],
      [file |-> "ok",         put |-> "err", sign |-> "-",   public |-> "-"],
      [file |-> "ok",         put |-> "ok",  sign |-> "ok",  public |-> "-"],
      [file |-> "ok",         put |-> "ok",  sign |-> "err", public |-> "ok"],
      [file |-> "ok",         put |-> "ok",  sign |-> "err", public |-> "err"] }

PosterScenarios ==
    { [file |-> "none",       put |-> "-",   sign |-> "-",   public |-> "-"],
      [file |-> "unreadable", put |-> "-",   sign |-> "-",   public |-> "-"],
      [file |-> "ok",         put |-> "err", sign |-> "-",   public |-> "-"],
      [file |-> "ok",         put |-> "ok",  sign |-> "ok",  public |-> "-"],
      [file |-> "ok",         put |-> "ok",  sign |-> "err", public |-> "-"] }

\* the storage calls a scenario leads to, in order
StorageCalls(sc) ==
    IF sc.file # "ok" THEN <<>>
    ELSE IF sc.put = "err" THEN <<"upload">>
    ELSE IF sc.sign = "ok" THEN <<"upload", "create_signed_url">>
    ELSE IF sc.public = "-" THEN <<"upload", "create_signed_url">>
    ELSE <<"upload", "create_signed_url", "get_public_url">>

\* marks a call that ended in an exception instead of a return value
RAISED == "<raised>"

save_upload_to_storage_raises(sc) ==
    IF sc.file = "none" THEN NO_URL
    ELSE IF sc.file = "unreadable" THEN RAISED
    ELSE IF sc.put = "err" THEN RAISED
    ELSE IF sc.sign = "ok" THEN SIGNED_URL
    ELSE IF sc.public = "ok" THEN PUBLIC_URL
    ELSE RAISED

\* Grants: save_upload_to_storage(file, prefix) -> url
save_upload_to_storage(sc) ==
    IF sc.file = "none" THEN NO_URL
    ELSE IF sc.file = "unreadable" THEN NO_URL
    ELSE IF sc.put = "err" THEN NO_URL
    ELSE IF sc.sign = "ok" THEN SIGNED_URL
    ELSE IF sc.public = "ok" THEN PUBLIC_URL
    ELSE NO_URL

\* Posters: save_upload_to_storage(file, prefix) -> url (no public fallback)
poster_save_upload_to_storage(sc) ==
    IF sc.file = "none" THEN NO_URL
    ELSE IF sc.file = "unreadable" THEN NO_URL
    ELSE IF sc.put = "err" THEN NO_URL
    ELSE IF sc.sign = "ok" THEN SIGNED_URL
    ELSE NO_URL

OrgSlots == <<"proposal", "budget", "other">>
StuSlots == <<"proposal", "budget", "cv", "support_letter">>

\* number of storage.upload() calls made for the slots of a form
PutCalls(slots, files) ==
    Cardinality({i \in 1..Len(slots) : Len(StorageCalls(files[slots[i]])) > 0})

(***************************************************************************)
(* Datastore                                                               *)
(***************************************************************************)
None == -1

TruthyId_always(rid) == TRUE

\* "if rid:", Python truthiness of Optional[int]
TruthyId(rid) == rid # None /\ rid # 0

main_outcome_needs_mail(rid_ok, mail_ok) ==
    IF rid_ok /\ mail_ok THEN "Succeeded" ELSE "Failed"

\* what the handler reports: st.success when the insert gave an id (before and
\* whatever send_email returns), st.error otherwise
main_outcome(rid_ok, mail_ok) == IF rid_ok THEN "Succeeded" ELSE "Failed"

\* What table(...).insert(data).execute() can do: raise ("raise"), answer
\* without rows ("norows"), or store the row and answer with it ("row").
\* The id column is the table's serial key.
InsertOutcomes == {"raise", "norows", "row"}

\* the columns of a row that the listing and the claims read
SubmissionColumns == {"track", "applicant_name", "email", "phone"}
PosterColumns == {"category", "lead_author", "coauthor1", "coauthor2", "coauthor3",
                  "institution_lead", "institution_co1", "institution_co2",
                  "institution_co3", "title", "abstract", "poster_url",
                  "contact_email"}

Restrict(f, keys) == [k \in keys |-> f[k]]

execute_insert_dedup(table, cols, data, db) ==
    LET same == {i \in 1..Len(table) :
                   Restrict(table[i], cols) = Restrict(data, cols)}
    IN  IF db = "row" /\ same # {}
        THEN [table |-> table, raised |-> FALSE,
              data |-> <<table[CHOOSE i \in same : TRUE]>>]
        ELSE IF db = "row"
        THEN LET row == [id |-> Len(table) + 1] @@ Restrict(data, cols)
             IN  [table |-> Append(table, row), raised |-> FALSE, data |-> <<row>>]
        ELSE [table |-> table, raised |-> (db = "raise"), data |-> <<>>]

execute_insert(table, cols, data, db) ==
    IF db = "row"
    THEN LET row == [id |-> Len(table) + 1] @@ Restrict(data, cols)
         IN  [table |-> Append(table, row), raised |-> FALSE, data |-> <<row>>]
    ELSE [table |-> table, raised |-> (db = "raise"), data |-> <<>>]

insert_submission_drops_id(track, applicant_name, email, phone, payload, uploads, table, db) ==
    LET data == [track |-> track, applicant_name |-> strip(applicant_name),
                 email |-> strip(email), phone |-> strip(phone),
                 payload_json |-> payload, uploads_json |-> uploads]
        res == execute_insert(table, SubmissionColumns, data, db)
    IN  [table |-> res.table, data |-> data, rid |-> None]

\* insert_submission(track, applicant_name, email, phone, payload, uploads)
insert_submission(track, applicant_name, email, phone, payload, uploads, table, db) ==
    LET data == [track |-> track, applicant_name |-> strip(applicant_name),
                 email |-> strip(email), phone |-> strip(phone),
                 payload_json |-> payload, uploads_json |-> uploads]
        res == execute_insert(table, SubmissionColumns, data, db)
    IN  [table |-> res.table, data |-> data,
         rid |-> IF ~res.raised /\ res.data # <<>> THEN res.data[1].id ELSE None]

\* insert_poster(payload)
insert_poster(payload, table, db) ==
    LET res == execute_insert(table, PosterColumns, payload, db)
    IN  [table |-> res.table, data |-> payload,
         rid |-> IF ~res.raised /\ res.data # <<>> THEN res.data[1].id ELSE None]

RECURSIVE SortDesc(_)
SortDesc(rows) ==
    IF rows = {} THEN <<>>
    ELSE LET top == CHOOSE r \in rows : \A q \in rows : q.id <= r.id
         IN  <<top>> \o SortDesc(rows \ {top})

\* load_submissions_df / admin_panel: select("*").order("id", desc=True);
\* a failing select gives no rows
load_rows(table, ok) == IF ok THEN SortDesc(Range(table)) ELSE <<>>

(***************************************************************************)
(* Email                                                                   *)
(***************************************************************************)
CC_EMAIL == "nhcma@lutinemanagement.com"

SmtpConfigured(cfg) ==
    Truthy(cfg.SMTP_USER) /\ Truthy(cfg.SMTP_PASSWORD) /\ Truthy(cfg.SMTP_FROM_EMAIL)

send_email_retries(to_email, cc_email, cfg, smtp) ==
    IF ~SmtpConfigured(cfg)
    THEN [ok |-> FALSE, attempts |-> 0, raised |-> FALSE]
    ELSE [ok |-> (smtp = "ok"), attempts |-> IF smtp = "ok" THEN 1 ELSE 2,
          raised |-> FALSE]

send_email_propagates(to_email, cc_email, cfg, smtp) ==
    IF ~SmtpConfigured(cfg)
    THEN [ok |-> FALSE, attempts |-> 0, raised |-> FALSE]
    ELSE [ok |-> (smtp = "ok"), attempts |-> 1, raised |-> (smtp # "ok")]

\* send_email(to_email, cc_email, subject, html_body) -> bool
\* smtp: "ok" or "err", the outcome of the SMTP session if one is opened
\* raised: an exception leaves the call (the except clause catches every
\* Exception of the SMTP session, so none does)
send_email(to_email, cc_email, cfg, smtp) ==
    IF ~SmtpConfigured(cfg)
    THEN [ok |-> FALSE, attempts |-> 0, raised |-> FALSE]
    ELSE [ok |-> (smtp = "ok"), attempts |-> 1, raised |-> FALSE]

(***************************************************************************)
(* Inputs of the forms                                                     *)
(***************************************************************************)
\* what a text widget can hold: nothing, whitespace only, padded text
FormText == {<<>>, <<SP>>, <<SP, "a">>}

OrgInputs == [org_name : FormText, applicant_name : FormText, email : FormText,
              phone : FormText, project_title : FormText]
OrgChecks == [nonprofit : BOOLEAN, report : BOOLEAN, benefit : BOOLEAN]

StuInputs == [applicant_name : FormText, school : SchoolOptions, email : FormText,
              phone : FormText, project_title : FormText]
StuChecks == [enrolled : BOOLEAN, report : BOOLEAN]

\* n words separated by single blanks
Words(n) == [i \in 1..(2 * n - 1) |-> IF i % 2 = 1 THEN "a" ELSE SP]

AbstractInputs == {<<>>, Words(WORD_LIMIT), Words(WORD_LIMIT + 1)}
Categories == {<<"Student">>, <<"Resident">>, <<"Fellow">>}
\* the optional text widgets of the poster form: co-authors and institutions
OptionalText == {<<>>}
PosterInputs == [category : Categories, lead_author : FormText,
                 contact_email : FormText, inst_lead : OptionalText,
                 co1 : OptionalText, inst_co1 : OptionalText,
                 co2 : OptionalText, inst_co2 : OptionalText,
                 co3 : OptionalText, inst_co3 : OptionalText,
                 title : FormText, abstract : AbstractInputs]

\* the SMTP settings; the script reads them from the secrets in every run
FullSecrets == [SMTP_USER |-> <<"u">>, SMTP_PASSWORD |-> <<"p">>, SMTP_FROM_EMAIL |-> <<"u">>]
NoPassword == [SMTP_USER |-> <<"u">>, SMTP_PASSWORD |-> <<>>, SMTP_FROM_EMAIL |-> <<"u">>]

\* settings and, when a session is opened, what the SMTP server does
MailInputs ==
    { [secrets |-> NoPassword,  smtp |-> "-"],
      [secrets |-> FullSecrets, smtp |-> "ok"],
      [secrets |-> FullSecrets, smtp |-> "err"] }

(***************************************************************************)
(* The record of one script run                                            *)
(***************************************************************************)
IdleRun ==
    [kind |-> "idle", track |-> "none", t |-> 0, click |-> FALSE,
     submitted |-> FALSE, fields |-> <<>>, checks |-> <<>>, files |-> <<>>,
     validate_calls |-> 0, messages |-> <<>>, attempted |-> <<>>,
     put_calls |-> 0, uploads |-> <<>>, insert_calls |-> 0,
     insert_data |-> <<>>, rid |-> None, email_calls |-> 0, smtp_attempts |-> 0,
     email_to |-> <<>>, email_cc |-> "", email_ok |-> FALSE, outcome |-> "none"]

Msg(kind, items) == [kind |-> kind, items |-> items]

\* the slots for which the uploader was called: all of them, unless a call
\* raised, which ends the form function there
Attempted(slots, files) ==
    LET bad == {i \in 1..Len(slots) :
                  save_upload_to_storage(files[slots[i]]) = RAISED}
    IN  IF bad = {} THEN slots
        ELSE SubSeq(slots, 1, CHOOSE i \in bad : \A j \in bad : i <= j)

UploadCrashed(slots, files) ==
    \E i \in 1..Len(slots) : save_upload_to_storage(files[slots[i]]) = RAISED

UploadsOf(slots, files) ==
    [s \in {x \in Range(Attempted(slots, files)) :
               save_upload_to_storage(files[x]) # RAISED}
        |-> save_upload_to_storage(files[s])]

(***************************************************************************)
(* Grants application: the form functions                                  *)
(***************************************************************************)
\* the part of a form function after validation: the uploads, in slot order
FormUploads(base, slots, files, next_pc) ==
    LET att == Attempted(slots, files)
        done == [base EXCEPT !.files = files, !.attempted = att,
                             !.put_calls = PutCalls(att, files),
                             !.uploads = UploadsOf(slots, files)]
    IN  IF UploadCrashed(slots, files)
        THEN /\ run' = [done EXCEPT !.kind = "final", !.outcome = "Crashed"]
             /\ pc' = "done"
        ELSE /\ run' = [done EXCEPT !.submitted = TRUE, !.outcome = "Pending"]
             /\ pc' = next_pc

\* org_form(), in a run where the user acts on the organization tab, for
\* the form contents in inputs and checks and the attachments in scenarios
OrgFormWith(inputs, checks, scenarios) ==
    /\ pc = "ready"
    /\ \E click \in BOOLEAN :
         LET disabled == too_late(ORG_DEADLINE, now)
             base == [IdleRun EXCEPT !.kind = "form", !.track = "organization",
                         !.t = now, !.click = click,
                         !.messages = IF disabled THEN <<Msg("closed", <<>>)>> ELSE <<>>]
         IN  IF ~st_button(click, disabled)
             THEN /\ run' = [base EXCEPT !.kind = "final",
                                !.outcome = IF click THEN "Closed" ELSE "none"]
                  /\ pc' = "done"
             ELSE \E f \in inputs, c \in checks :
                    LET missing == _missing_org_fields(f.org_name, f.applicant_name,
                                                       f.email, f.project_title)
                        filled == [base EXCEPT !.fields = f, !.checks = c, !.validate_calls = 1]
                    IN  IF missing # <<>>
                        THEN /\ run' = [filled EXCEPT !.kind = "final", !.outcome = "Rejected",
                                           !.messages = Append(@, Msg("missing", missing))]
                             /\ pc' = "done"
                        ELSE IF ~(c.nonprofit /\ c.report /\ c.benefit)
                        THEN /\ run' = [filled EXCEPT !.kind = "final", !.outcome = "Rejected",
                                           !.messages = Append(@, Msg("eligibility", <<>>))]
                             /\ pc' = "done"
                        ELSE \E files \in [Range(OrgSlots) -> scenarios] :
                               FormUploads(filled, OrgSlots, files, "org_main")
    /\ UNCHANGED <<now, submissions, posters, session_state>>

OrgForm == OrgFormWith(OrgInputs, OrgChecks, GrantScenarios)

\* student_form(), in a run where the user acts on the student tab
StudentFormWith(inputs, checks, scenarios) ==
    /\ pc = "ready"
    /\ \E click \in BOOLEAN :
         LET disabled == too_late(STU_DEADLINE, now)
             base == [IdleRun EXCEPT !.kind = "form", !.track = "student",
                         !.t = now, !.click = click,
                         !.messages = IF disabled THEN <<Msg("closed", <<>>)>> ELSE <<>>]
         IN  IF ~st_button(click, disabled)
             THEN /\ run' = [base EXCEPT !.kind = "final",
                                !.outcome = IF click THEN "Closed" ELSE "none"]
                  /\ pc' = "done"
             ELSE \E f \in inputs, c \in checks :
                    LET missing == _missing_student_fields(f.applicant_name,
                                       school_norm(f.school), f.email, f.phone,
                                       f.project_title)
                        filled == [base EXCEPT !.fields = f, !.checks = c, !.validate_calls = 1]
                    IN  IF missing # <<>>
                        THEN /\ run' = [filled EXCEPT !.kind = "final", !.outcome = "Rejected",
                                           !.messages = Append(@, Msg("missing", missing))]
                             /\ pc' = "done"
                        ELSE IF ~(c.enrolled /\ c.report)
                        THEN /\ run' = [filled EXCEPT !.kind = "final", !.outcome = "Rejected",
                                           !.messages = Append(@, Msg("eligibility", <<>>))]
                             /\ pc' = "done"
                        ELSE \E files \in [Range(StuSlots) -> scenarios] :
                               FormUploads(filled, StuSlots, files, "stu_main")
    /\ UNCHANGED <<now, submissions, posters, session_state>>

StudentForm == StudentFormWith(StuInputs, StuChecks, GrantScenarios)

(***************************************************************************)
(* Grants application: the tab handlers of the main script                 *)
(***************************************************************************)
\* "if submitted:" of tab1 / tab2.  The form's local variables (the attached
\* files) are gone; the handler has the returned tuple.
GrantsMain(track, cap) ==
    \E db \in InsertOutcomes :
      /\ db = "row" => Len(submissions) + Len(posters) < cap
      /\ LET ins == insert_submission(track, run.fields.applicant_name,
                                      run.fields.email, run.fields.phone,
                                      run.fields, run.uploads, submissions, db)
             called == [run EXCEPT !.kind = "final", !.files = <<>>,
                                   !.insert_calls = 1, !.insert_data = ins.data,
                                   !.rid = ins.rid]
         IN  /\ submissions' = ins.table
             /\ IF TruthyId(ins.rid)
                THEN \E mail \in MailInputs :
                       LET m == send_email(run.fields.email, CC_EMAIL, mail.secrets, mail.smtp)
                       IN  run' = [called EXCEPT
                                      !.outcome = IF m.raised THEN "Crashed"
                                                  ELSE main_outcome(TRUE, m.ok),
                                      !.messages = Append(@, Msg("success", <<>>)),
                                      !.email_calls = 1, !.smtp_attempts = m.attempts,
                                      !.email_to = run.fields.email,
                                      !.email_cc = CC_EMAIL, !.email_ok = m.ok]
                ELSE run' = [called EXCEPT !.outcome = main_outcome(FALSE, FALSE),
                                !.messages = Append(@, Msg("error", <<>>))]
      /\ pc' = "done"
      /\ UNCHANGED <<now, posters, session_state>>

OrgMain == pc = "org_main" /\ GrantsMain("organization", MaxRecords)

StudentMain == pc = "stu_main" /\ GrantsMain("student", MaxRecords)

(***************************************************************************)
(* Posters application: the submit handler                                 *)
(***************************************************************************)
DigitChars == <<"0", "1", "2", "3", "4", "5", "6", "7", "8", "9">>

RECURSIVE IntToStr(_)
\* str(n) for n >= 0
IntToStr(n) == IF n < 10 THEN <<DigitChars[n + 1]>>
               ELSE IntToStr(n \div 10) \o <<DigitChars[(n % 10) + 1]>>

RECURSIVE Join(_)
\* "|".join(parts)
Join(parts) == IF parts = <<>> THEN <<>>
               ELSE IF Len(parts) = 1 THEN parts[1]
               ELSE parts[1] \o <<"|">> \o Join(Tail(parts))

POSTER_FILE_NAME == <<"poster.pdf">>

\* session_state.get("last_poster_token") before any token was stored
NoToken == <<>>

\* submission_token, built from token_parts
submission_token(f, sc) ==
    Join(<<strip(f.category), strip(f.lead_author), strip(f.contact_email),
           strip(f.title), IntToStr(Len(strip(f.abstract))),
           IF sc.file # "none" THEN POSTER_FILE_NAME ELSE <<>>>>)

token_after_insert_always(last, token, rid) == token

\* "if rid: st.session_state["last_poster_token"] = submission_token"
token_after_insert(last, token, rid) == IF TruthyId(rid) THEN token ELSE last

\* the else-branch of the duplicate check: upload, insert, confirm
PosterPersist(withfile, f, sc, token, cap) ==
    \E db \in InsertOutcomes :
      /\ db = "row" => Len(submissions) + Len(posters) < cap
      /\ LET poster_url == IF sc.file # "none"
                           THEN poster_save_upload_to_storage(sc) ELSE NO_URL
             payload == [category |-> f.category,
                         lead_author |-> strip(f.lead_author),
                         coauthor1 |-> strip(f.co1),
                         coauthor2 |-> strip(f.co2),
                         coauthor3 |-> strip(f.co3),
                         institution_lead |-> strip(f.inst_lead),
                         institution_co1 |-> strip(f.inst_co1),
                         institution_co2 |-> strip(f.inst_co2),
                         institution_co3 |-> strip(f.inst_co3),
                         title |-> strip(f.title),
                         abstract |-> strip(f.abstract),
                         poster_url |-> poster_url,
                         contact_email |-> strip(f.contact_email)]
             ins == insert_poster(payload, posters, db)
             called == [withfile EXCEPT
                          !.attempted = IF sc.file # "none" THEN <<"poster">> ELSE <<>>,
                          !.put_calls = IF Len(StorageCalls(sc)) > 0 THEN 1 ELSE 0,
                          !.uploads = [s \in {"poster"} |-> poster_url],
                          !.insert_calls = 1, !.insert_data = ins.data,
                          !.rid = ins.rid]
         IN  /\ posters' = ins.table
             /\ session_state' = [session_state EXCEPT !.last_poster_token =
                                     token_after_insert(@, token, ins.rid)]
             /\ IF TruthyId(ins.rid)
                THEN \E mail \in MailInputs :
                       LET m == send_email(f.contact_email, CC_EMAIL, mail.secrets, mail.smtp)
                       IN  run' = [called EXCEPT
                                      !.outcome = IF m.raised THEN "Crashed"
                                                  ELSE main_outcome(TRUE, m.ok),
                                      !.messages = <<Msg("success", <<>>)>>,
                                      !.email_calls = 1, !.smtp_attempts = m.attempts,
                                      !.email_to = f.contact_email,
                                      !.email_cc = CC_EMAIL, !.email_ok = m.ok]
                ELSE run' = [called EXCEPT !.outcome = main_outcome(FALSE, FALSE),
                                !.messages = <<Msg("error", <<>>)>>]

already_processed_never(last, token) == FALSE

\* st.session_state.get("last_poster_token") == submission_token
already_processed(last, token) == last = token

\* "if submit:" of the poster page, for the form contents and attachments in
\* inputs and scenarios, with room for cap rows in the datastore
PosterSubmitWith(inputs, scenarios, cap) ==
    /\ pc = "ready"
    /\ \E click \in BOOLEAN :
         LET base == [IdleRun EXCEPT !.kind = "final", !.track = "poster",
                         !.t = now, !.click = click]
         IN  IF ~click
             THEN /\ run' = base
                  /\ UNCHANGED <<posters, session_state>>
             ELSE \E f \in inputs :
                    LET filled == [base EXCEPT !.fields = f, !.submitted = TRUE,
                                              !.validate_calls = 1]
                    IN  IF ~poster_required_complete(f.category, f.lead_author, f.title,
                                                     f.abstract, f.contact_email)
                        THEN /\ run' = [filled EXCEPT !.outcome = "Rejected",
                                           !.messages = <<Msg("required", <<>>)>>]
                             /\ UNCHANGED <<posters, session_state>>
                        ELSE IF abstract_too_long(f.abstract)
                        THEN /\ run' = [filled EXCEPT !.outcome = "Rejected",
                                           !.messages = <<Msg("abstract", <<>>)>>]
                             /\ UNCHANGED <<posters, session_state>>
                        ELSE \E sc \in scenarios :
                               LET token == submission_token(f, sc)
                                   withfile == [filled EXCEPT !.files = sc]
                               IN  IF already_processed(session_state.last_poster_token, token)
                                   THEN /\ run' = [withfile EXCEPT !.outcome = "Duplicate",
                                                      !.messages = <<Msg("duplicate", <<>>)>>]
                                        /\ UNCHANGED <<posters, session_state>>
                                   ELSE PosterPersist(withfile, f, sc, token, cap)
    /\ pc' = "done"
    /\ UNCHANGED <<now, submissions>>

PosterSubmit == PosterSubmitWith(PosterInputs, PosterScenarios, MaxRecords)

(***************************************************************************)
(* Environment and specification                                           *)
(***************************************************************************)
\* the next interaction re-executes the script; the output of the previous
\* run is discarded
Rerun ==
    /\ pc = "done"
    /\ pc' = "ready"
    /\ run' = IdleRun
    /\ UNCHANGED <<now, submissions, posters, session_state>>

\* the wall clock advances
Tick ==
    /\ pc = "ready"
    /\ now < MaxTime
    /\ now' = now + 1
    /\ UNCHANGED <<submissions, posters, session_state, pc, run>>

Init ==
    /\ now = 0
    /\ submissions = <<>>
    /\ posters = <<>>
    /\ session_state = [last_poster_token |-> NoToken, admin_ok |-> FALSE]
    /\ pc = "ready"
    /\ run = IdleRun

Next ==
    \/ OrgForm
    \/ OrgMain
    \/ StudentForm
    \/ StudentMain
    \/ PosterSubmit
    \/ Rerun
    \/ Tick

Spec == Init /\ [][Next]_vars

(***************************************************************************)
(* The deadline gate and the validators on their own                       *)
(***************************************************************************)
Instants == 0..MaxInstant

\* too_late applied to a cutoff, at the current clock reading
GateCheck ==
    /\ pc = "ready"
    /\ \E deadline \in Instants :
         run' = [kind |-> "gate", deadline |-> deadline, t |-> now,
                 closed |-> too_late(deadline, now)]
    /\ pc' = "done"
    /\ UNCHANGED <<now, submissions, posters, session_state>>

InitGate ==
    /\ now \in Instants
    /\ submissions = <<>>
    /\ posters = <<>>
    /\ session_state = [last_poster_token |-> NoToken, admin_ok |-> FALSE]
    /\ pc = "ready"
    /\ run = IdleRun

SpecGate == InitGate /\ [][GateCheck]_vars

Text == Str(MaxLen)

StudentFields == <<"applicant_name", "school", "email", "phone", "project_title">>
OrgFields == <<"org_name", "applicant_name", "email", "project_title">>
PosterFields == <<"category", "lead_author", "title", "abstract", "contact_email">>

\* the school argument: a selectbox option, or any other text
SchoolInputs == SchoolOptions \cup {<<>>, <<SP>>}

ValidateStudent ==
    /\ pc = "ready"
    /\ \E f \in [applicant_name : Text, school : SchoolInputs, email : Text,
                 phone : Text, project_title : Text] :
         run' = [kind |-> "validate", track |-> "student", fields |-> f,
                 missing |-> _missing_student_fields(f.applicant_name, f.school,
                                 f.email, f.phone, f.project_title),
                 form_missing |-> _missing_student_fields(f.applicant_name,
                                 school_norm(f.school), f.email, f.phone,
                                 f.project_title)]
    /\ pc' = "done"
    /\ UNCHANGED <<now, submissions, posters, session_state>>

ValidateOrg ==
    /\ pc = "ready"
    /\ \E f \in [org_name : Text, applicant_name : Text, email : Text,
                 project_title : Text] :
         run' = [kind |-> "validate", track |-> "organization", fields |-> f,
                 missing |-> _missing_org_fields(f.org_name, f.applicant_name,
                                 f.email, f.project_title)]
    /\ pc' = "done"
    /\ UNCHANGED <<now, submissions, posters, session_state>>

ValidatePoster ==
    /\ pc = "ready"
    /\ \E f \in [category : Categories, lead_author : Text, title : Text,
                 abstract : Text, contact_email : Text] :
         run' = [kind |-> "validate", track |-> "poster", fields |-> f,
                 complete |-> poster_required_complete(f.category, f.lead_author,
                                 f.title, f.abstract, f.contact_email)]
    /\ pc' = "done"
    /\ UNCHANGED <<now, submissions, posters, session_state>>

NextValidate ==
    \/ ValidateStudent
    \/ ValidateOrg
    \/ ValidatePoster

SpecValidate == Init /\ [][NextValidate]_vars

(***************************************************************************)
(* send_email on its own                                                   *)
(***************************************************************************)
\* what the SMTP session does if one is opened: it succeeds, or SMTP(),
\* starttls(), login() or send_message() raises
SmtpOutcomes == {"ok", "connect_err", "starttls_err", "login_err", "send_err"}

SmtpSettings == [SMTP_USER : Text, SMTP_PASSWORD : Text, SMTP_FROM_EMAIL : Text]

SendEmail ==
    /\ pc = "ready"
    /\ \E cfg \in SmtpSettings, smtp \in SmtpOutcomes :
         run' = [kind |-> "mail", cfg |-> cfg, smtp |-> smtp,
                 result |-> send_email(<<"a">>, CC_EMAIL, cfg, smtp)]
    /\ pc' = "done"
    /\ UNCHANGED <<now, submissions, posters, session_state>>

SpecMail == Init /\ [][SendEmail]_vars

(***************************************************************************)
(* The admin gate of the two applications                                  *)
(***************************************************************************)
Apps == {"grants", "posters"}

\* ADMIN_PASSWORD as the run reads it; <<>> stands for "not configured"
AdminSecrets == Text

grants_password_ok_prefix(pwd, ADMIN_PASSWORD) ==
    /\ pwd # <<>>
    /\ Len(pwd) <= Len(ADMIN_PASSWORD)
    /\ SubSeq(ADMIN_PASSWORD, 1, Len(pwd)) = pwd

\* grants _admin_allowed: pwd == ADMIN_PASSWORD
grants_password_ok(pwd, ADMIN_PASSWORD) == pwd = ADMIN_PASSWORD

\* posters _admin_allowed: (pw or "").strip() == str(PW)
posters_password_ok(pw, PW) == strip(pw) = PW

AdminRun(app, secret, flag, login, logout, pwd, allowed) ==
    [kind |-> "admin", app |-> app, secret |-> secret, flag_before |-> flag,
     login |-> login, logout |-> logout, pwd |-> pwd, listed |-> allowed,
     listing |-> IF ~allowed THEN <<>>
                 ELSE IF app = "grants" THEN load_rows(submissions, TRUE)
                 ELSE load_rows(posters, TRUE)]

\* tab3 of the grants script: _admin_allowed(), then admin_panel() or st.stop()
GrantsAdmin ==
    /\ pc = "ready"
    /\ session_state.app = "grants"
    /\ \E secret \in AdminSecrets, ok \in BOOLEAN, pwd \in Text :
         LET flag == session_state.admin_ok
         IN  IF ~Truthy(secret)
             THEN /\ run' = AdminRun("grants", secret, flag, FALSE, FALSE, <<>>, FALSE)
                  /\ UNCHANGED session_state
             ELSE IF flag
             THEN /\ run' = AdminRun("grants", secret, flag, FALSE, FALSE, <<>>, TRUE)
                  /\ UNCHANGED session_state
             ELSE IF ok /\ grants_password_ok(pwd, secret)
             THEN /\ run' = AdminRun("grants", secret, flag, TRUE, FALSE, pwd, TRUE)
                  /\ session_state' = [session_state EXCEPT !.admin_ok = TRUE]
             ELSE /\ run' = AdminRun("grants", secret, flag, ok, FALSE,
                                     IF ok THEN pwd ELSE <<>>, FALSE)
                  /\ UNCHANGED session_state
    /\ pc' = "done"
    /\ UNCHANGED <<now, submissions, posters>>

\* the admin section of the posters script: _admin_allowed(), then
\* admin_panel(); st.rerun() and st.stop() end the run without the listing
PostersAdmin ==
    /\ pc = "ready"
    /\ session_state.app = "posters"
    /\ \E secret \in AdminSecrets, ok \in BOOLEAN, pw \in Text, logout \in BOOLEAN :
         LET flag == session_state.admin_ok
         IN  IF ~Truthy(secret)
             THEN /\ run' = AdminRun("posters", secret, flag, FALSE, FALSE, <<>>, FALSE)
                  /\ UNCHANGED session_state
             ELSE IF flag
             THEN IF logout
                  THEN /\ run' = AdminRun("posters", secret, flag, FALSE, TRUE, <<>>, FALSE)
                       /\ session_state' = [session_state EXCEPT !.admin_ok = FALSE]
                  ELSE /\ run' = AdminRun("posters", secret, flag, FALSE, FALSE, <<>>, TRUE)
                       /\ UNCHANGED session_state
             ELSE IF ok /\ posters_password_ok(pw, secret)
             THEN /\ run' = AdminRun("posters", secret, flag, TRUE, FALSE, pw, FALSE)
                  /\ session_state' = [session_state EXCEPT !.admin_ok = TRUE]
             ELSE /\ run' = AdminRun("posters", secret, flag, ok, FALSE,
                                     IF ok THEN pw ELSE <<>>, FALSE)
                  /\ UNCHANGED session_state
    /\ pc' = "done"
    /\ UNCHANGED <<now, submissions, posters>>

\* a browser session of one of the two applications
InitAdmin ==
    /\ now = 0
    /\ submissions = <<>>
    /\ posters = <<>>
    /\ session_state \in {[app |-> a, last_poster_token |-> NoToken,
                           admin_ok |-> FALSE] : a \in Apps}
    /\ pc = "ready"
    /\ run = IdleRun

NextAdmin ==
    \/ GrantsAdmin
    \/ PostersAdmin
    \/ Rerun

SpecAdmin == InitAdmin /\ [][NextAdmin]_vars

(***************************************************************************)
(* A session with several submissions                                      *)
(***************************************************************************)
MaxSession == 3

\* no file attached to the slot
NoFile == [file |-> "none", put |-> "-", sign |-> "-", public |-> "-"]
SessionScenarios == {NoFile}

\* a complete poster form, and forms that differ from it in the title, in a
\* co-author, in an institution, or in the text (not the length) of the abstract
PosterA ==
    [category |-> <<"Student">>, lead_author |-> <<"a">>, contact_email |-> <<"a">>,
     inst_lead |-> <<>>, co1 |-> <<>>, inst_co1 |-> <<>>, co2 |-> <<>>,
     inst_co2 |-> <<>>, co3 |-> <<>>, inst_co3 |-> <<>>,
     title |-> <<"a">>, abstract |-> <<"a">>]
PosterB == [PosterA EXCEPT !.title = <<"b">>]
PosterA_coauthor == [PosterA EXCEPT !.co1 = <<"c">>]
PosterA_institution == [PosterA EXCEPT !.inst_lead = <<"i">>]
PosterA_abstract == [PosterA EXCEPT !.abstract = <<"b">>]
SessionPosterInputs ==
    {PosterA, PosterB, PosterA_coauthor, PosterA_institution, PosterA_abstract}

\* complete grant forms with every eligibility box checked
SessionOrgInputs ==
    {[org_name |-> <<"a">>, applicant_name |-> <<"a">>, email |-> <<"a">>,
      phone |-> <<"a">>, project_title |-> <<"a">>]}
SessionOrgChecks == {[nonprofit |-> TRUE, report |-> TRUE, benefit |-> TRUE]}
SessionStuInputs ==
    {[applicant_name |-> <<"a">>, school |-> YALE, email |-> <<"a">>,
      phone |-> <<"a">>, project_title |-> <<"a">>]}
SessionStuChecks == {[enrolled |-> TRUE, report |-> TRUE]}

SessionOrgForm == OrgFormWith(SessionOrgInputs, SessionOrgChecks, SessionScenarios)

SessionOrgMain == pc = "org_main" /\ GrantsMain("organization", MaxSession)

SessionStudentForm ==
    StudentFormWith(SessionStuInputs, SessionStuChecks, SessionScenarios)

SessionStudentMain == pc = "stu_main" /\ GrantsMain("student", MaxSession)

SessionPosterSubmit ==
    PosterSubmitWith(SessionPosterInputs, SessionScenarios, MaxSession)

NextSession ==
    \/ SessionOrgForm
    \/ SessionOrgMain
    \/ SessionStudentForm
    \/ SessionStudentMain
    \/ SessionPosterSubmit
    \/ Rerun

SpecSession == Init /\ [][NextSession]_vars

(***************************************************************************)
(* Vocabulary of the properties                                            *)
(***************************************************************************)
GrantTracks == {"organization", "student"}
SlotsOf(track) == IF track = "organization" THEN OrgSlots ELSE StuSlots
DeadlineOf(track) == IF track = "organization" THEN ORG_DEADLINE ELSE STU_DEADLINE
TableOf(track) == IF track = "poster" THEN posters ELSE submissions

\* the run variable holds the record of a pipeline run
PipelineRun == run.kind \in {"form", "final"}

NoId(rid) == rid = None \/ rid = 0

NoCalls ==
    /\ run.attempted = <<>>
    /\ run.put_calls = 0
    /\ run.insert_calls = 0
    /\ run.email_calls = 0
    /\ run.smtp_attempts = 0

\* the fields of the run that the track's validator checks and that are blank
BlankChecked ==
    IF run.track = "organization"
    THEN {i \in 1..Len(OrgFields) : IsBlank(run.fields[OrgFields[i]])}
    ELSE IF run.track = "student"
    THEN {i \in 1..Len(StudentFields) :
             \/ IsBlank(run.fields[StudentFields[i]])
             \/ StudentFields[i] = "school" /\ run.fields.school = PLACEHOLDER}
    ELSE {i \in 1..Len(PosterFields) : IsBlank(run.fields[PosterFields[i]])}

Unacknowledged ==
    IF run.track = "organization"
    THEN ~(run.checks.nonprofit /\ run.checks.report /\ run.checks.benefit)
    ELSE IF run.track = "student"
    THEN ~(run.checks.enrolled /\ run.checks.report)
    ELSE FALSE

OverLength ==
    run.track = "poster" /\ WordCount(run.fields.abstract) > WORD_LIMIT

ValidationFails ==
    /\ PipelineRun
    /\ run.validate_calls = 1
    /\ (BlankChecked # {} \/ Unacknowledged \/ OverLength)

(***************************************************************************)
(* C1: in a run whose validation fails (a checked required field blank     *)
(* after trimming, an eligibility box unset, or a poster abstract of more  *)
(* than 250 words) the run is rejected and the uploader, the storage put,  *)
(* the insert and the email are each called zero times.                    *)
(***************************************************************************)
C1_ValidationFailureCallsNothing ==
    ValidationFails => (pc = "done" /\ run.outcome = "Rejected" /\ NoCalls)

C1_Witness ==
    /\ PipelineRun
    /\ run.track = "organization"
    /\ run.validate_calls = 1
    /\ run.fields.email = <<SP>>
    /\ run.outcome = "Rejected"

(***************************************************************************)
(* C2: a run whose insert returned no identifier ends Failed and calls     *)
(* send_email zero times; send_email is only called in a run whose insert  *)
(* returned an identifier.                                                 *)
(***************************************************************************)
C2_NoIdNoEmail ==
    PipelineRun =>
      /\ (run.insert_calls = 1 /\ NoId(run.rid)) =>
            (run.outcome = "Failed" /\ run.email_calls = 0 /\ run.smtp_attempts = 0)
      /\ run.email_calls > 0 => (run.insert_calls = 1 /\ ~NoId(run.rid))

C2_Witness ==
    /\ PipelineRun
    /\ run.track = "student"
    /\ run.insert_calls = 1
    /\ NoId(run.rid)
    /\ run.outcome = "Failed"

(***************************************************************************)
(* C3: a run whose insert returned an identifier ends Succeeded whatever   *)
(* send_email returns, and the listing (newest first) contains the record  *)
(* with that identifier.                                                   *)
(***************************************************************************)
C3_NotifyFailureStillSucceeds ==
    (PipelineRun /\ run.insert_calls = 1 /\ ~NoId(run.rid)) =>
      /\ run.outcome = "Succeeded"
      /\ run.email_calls = 1
      /\ LET listing == load_rows(TableOf(run.track), TRUE)
         IN  \E i \in 1..Len(listing) : listing[i].id = run.rid

C3_Witness ==
    /\ PipelineRun
    /\ run.outcome = "Succeeded"
    /\ run.smtp_attempts = 1
    /\ ~run.email_ok
    /\ \E i \in 1..Len(submissions) : submissions[i].id = run.rid

(***************************************************************************)
(* C4                                                                      *)
(***************************************************************************)
StorageFailure(sc) == sc.file = "unreadable" \/ sc.put = "err" \/ sc.sign = "err"

\* the slots of the run and what was attached to each: known while the form
\* function's locals are alive (grants) or in the poster handler
SlotFiles ==
    IF run.track \in GrantTracks /\ pc \in {"org_main", "stu_main"}
    THEN run.files
    ELSE IF run.track = "poster" /\ run.insert_calls = 1
    THEN [s \in {"poster"} |-> run.files]
    ELSE <<>>

\* every slot attempted in the declared order, the insert called once with
\* the uploads mapping, and success whenever the insert returned an id
RestOfPipelineRuns ==
    /\ (run.track \in GrantTracks /\ run.outcome \notin {"none", "Closed", "Rejected"}) =>
          /\ run.attempted = SlotsOf(run.track)
          /\ DOMAIN run.uploads = Range(SlotsOf(run.track))
    /\ (run.track \in GrantTracks /\ run.kind = "final" /\ run.attempted # <<>>) =>
          /\ run.insert_calls = 1
          /\ run.insert_data.uploads_json = run.uploads
          /\ (~NoId(run.rid) => run.outcome = "Succeeded")
    /\ (run.track = "poster" /\ run.insert_calls = 1) =>
          /\ run.insert_data.poster_url = run.uploads["poster"]
          /\ (~NoId(run.rid) => run.outcome = "Succeeded")

\* C4 as claimed: a storage failure on a slot (unreadable bytes, put error or
\* signing error) yields the empty string for that slot; the remaining slots
\* are attempted, the insert is called with the mapping, and the run succeeds
\* if the insert does.
C4_AsClaimed ==
    PipelineRun =>
      /\ \A s \in DOMAIN SlotFiles :
            StorageFailure(SlotFiles[s]) => run.uploads[s] = NO_URL
      /\ RestOfPipelineRuns

\* the URL a slot gets, by what happened to it
ExpectedUrl(track, sc) ==
    IF sc.file = "none" \/ sc.file = "unreadable" \/ sc.put = "err" THEN NO_URL
    ELSE IF sc.sign = "ok" THEN SIGNED_URL
    ELSE IF track \in GrantTracks /\ sc.public = "ok" THEN PUBLIC_URL
    ELSE NO_URL

(***************************************************************************)
(* C4 (amended): unreadable bytes or a put error yield the empty string    *)
(* for that slot; a signing error yields the public URL in the grants      *)
(* application when the public-URL request succeeds, and the empty string  *)
(* otherwise (always, in the posters application); every other slot keeps  *)
(* the URL its own upload produced; all slots of the track are attempted   *)
(* in the declared order, the insert is called once with that mapping, and *)
(* the run reports success if the insert returns an identifier.            *)
(***************************************************************************)
C4_UploadFailureIsPerSlot ==
    PipelineRun =>
      /\ \A s \in DOMAIN SlotFiles :
            run.uploads[s] = ExpectedUrl(run.track, SlotFiles[s])
      /\ RestOfPipelineRuns

C4_Witness ==
    /\ PipelineRun
    /\ run.track = "student"
    /\ run.outcome = "Succeeded"
    /\ run.uploads["budget"] = NO_URL
    /\ run.uploads["proposal"] = SIGNED_URL
    /\ run.uploads["cv"] = PUBLIC_URL
    /\ run.put_calls = 3
    /\ run.insert_data.uploads_json["budget"] = NO_URL

(***************************************************************************)
(* C5: a table only ever grows by one row at its end, exactly in a step    *)
(* whose insert call returned an identifier (that row's id) and whose run  *)
(* ends Succeeded; a run ending Failed leaves both tables as they were; no *)
(* existing row is changed or removed.                                     *)
(***************************************************************************)
IsPrefix(a, b) == Len(a) <= Len(b) /\ SubSeq(b, 1, Len(a)) = a

TablesChange == submissions' # submissions \/ posters' # posters

C5_Step ==
    /\ IsPrefix(submissions, submissions')
    /\ IsPrefix(posters, posters')
    /\ Len(submissions') + Len(posters') <= Len(submissions) + Len(posters) + 1
    /\ TablesChange <=>
          (run.insert_calls = 0 /\ run'.insert_calls = 1 /\ ~NoId(run'.rid))
    /\ TablesChange =>
          /\ run'.outcome = "Succeeded"
          /\ LET t == IF run'.track = "poster" THEN posters' ELSE submissions'
             IN  t[Len(t)].id = run'.rid
    /\ run'.outcome = "Failed" => ~TablesChange

C5_RecordIffIdentifier == [][C5_Step]_vars

C5_Witness ==
    /\ PipelineRun
    /\ Len(submissions) = 1
    /\ run.insert_calls = 1
    /\ run.outcome = "Failed"

C7_ClosedIffAfterCutoff ==
    run.kind = "gate" =>
      /\ run.closed <=> run.t > run.deadline
      /\ run.t = run.deadline => ~run.closed

C7_Witness ==
    /\ run.kind = "gate"
    /\ run.t = run.deadline
    /\ ~run.closed

(***************************************************************************)
(* C8                                                                      *)
(***************************************************************************)
\* position of a label in a list of labels (0 when absent)
Pos(labels, x) ==
    IF \E i \in 1..Len(labels) : labels[i] = x
    THEN CHOOSE i \in 1..Len(labels) : labels[i] = x
    ELSE 0

\* the reported list names only declared labels, in the declared order,
\* none of them twice
InDeclaredOrder(missing, labels) ==
    /\ \A i \in 1..Len(missing) : Pos(labels, missing[i]) > 0
    /\ \A i, j \in 1..Len(missing) :
          i < j => Pos(labels, missing[i]) < Pos(labels, missing[j])

ReportsBlanks(names, labels, blanks) ==
    /\ \A i \in 1..Len(names) :
          (labels[i] \in Range(run.missing)) <=> names[i] \in blanks
    /\ InDeclaredOrder(run.missing, labels)

BlankField(name) == IsBlank(run.fields[name])

BlankFields(names) == {n \in Range(names) : BlankField(n)}

BlankOrPlaceholder(name) ==
    \/ IsBlank(run.fields[name])
    \/ name = "school" /\ run.fields.school = PLACEHOLDER

PosterRejectsIffBlank ==
    ~run.complete <=> \E i \in 1..Len(PosterFields) : BlankField(PosterFields[i])

\* C8 as claimed: a field is reported missing if and only if it is in the
\* track's required list and is empty after trimming; the list follows the
\* declared order without duplicates.
C8_AsClaimed ==
    run.kind = "validate" =>
      CASE run.track = "student" -> ReportsBlanks(StudentFields, StudentLabels, BlankFields(StudentFields))
        [] run.track = "organization" -> ReportsBlanks(OrgFields, OrgLabels, BlankFields(OrgFields))
        [] OTHER -> PosterRejectsIffBlank

(***************************************************************************)
(* C8 (amended): the student and organization validators report a field of *)
(* their list as missing if and only if it is empty after trimming or, for *)
(* the school selector, equal to the placeholder option; the reported list *)
(* follows the declared order without duplicates.  The poster check names  *)
(* no field: it rejects if and only if some required field is empty after  *)
(* trimming.                                                               *)
(***************************************************************************)
C8_MissingIffBlankOrPlaceholder ==
    run.kind = "validate" =>
      CASE run.track = "student" ->
             /\ ReportsBlanks(StudentFields, StudentLabels,
                              {n \in Range(StudentFields) : BlankOrPlaceholder(n)})
             /\ run.form_missing = run.missing
        [] run.track = "organization" -> ReportsBlanks(OrgFields, OrgLabels, BlankFields(OrgFields))
        [] OTHER -> PosterRejectsIffBlank

C8_Witness ==
    /\ run.kind = "validate"
    /\ run.track = "student"
    /\ run.fields.school = PLACEHOLDER
    /\ run.fields.phone = <<SP, SP>>
    /\ run.fields.email = <<SP, "a">>
    /\ run.missing = <<StudentLabels[2], StudentLabels[4]>>

(***************************************************************************)
(* C9 as claimed: every stored organization or student row has a non-blank *)
(* applicant name, email and phone, and every stored poster row a non-     *)
(* blank lead author and contact email.                                    *)
(***************************************************************************)
C9_AsClaimed ==
    /\ \A i \in 1..Len(submissions) :
          /\ ~IsBlank(submissions[i].applicant_name)
          /\ ~IsBlank(submissions[i].email)
          /\ ~IsBlank(submissions[i].phone)
    /\ \A i \in 1..Len(posters) :
          /\ ~IsBlank(posters[i].lead_author)
          /\ ~IsBlank(posters[i].contact_email)

(***************************************************************************)
(* C10                                                                     *)
(***************************************************************************)
MessageKinds == {run.messages[i].kind : i \in 1..Len(run.messages)}

\* C10 as claimed: a rejected run reports every problem the submission has.
C10_AsClaimed ==
    (PipelineRun /\ run.outcome = "Rejected") =>
      /\ (run.track \in GrantTracks /\ BlankChecked # {}) => "missing" \in MessageKinds
      /\ (run.track = "poster" /\ BlankChecked # {}) => "required" \in MessageKinds
      /\ Unacknowledged => "eligibility" \in MessageKinds
      /\ OverLength => "abstract" \in MessageKinds

LabelsOf(track) == IF track = "organization" THEN OrgLabels ELSE StudentLabels

(***************************************************************************)
(* C10 (amended): a rejected run reports exactly one problem category, the *)
(* first that fails in the order of the checks: missing required fields,   *)
(* then (grants) eligibility or (poster) abstract length.  Within the      *)
(* missing-fields warning the grants forms name every missing field; the   *)
(* poster warning names none.                                              *)
(***************************************************************************)
C10_FirstFailingCategoryOnly ==
    (PipelineRun /\ run.outcome = "Rejected") =>
      IF run.track \in GrantTracks
      THEN IF BlankChecked # {}
           THEN /\ Len(run.messages) = 1
                /\ run.messages[1].kind = "missing"
                /\ Range(run.messages[1].items) =
                      {LabelsOf(run.track)[i] : i \in BlankChecked}
           ELSE run.messages = <<Msg("eligibility", <<>>)>>
      ELSE IF BlankChecked # {}
           THEN run.messages = <<Msg("required", <<>>)>>
           ELSE run.messages = <<Msg("abstract", <<>>)>>

C10_Witness ==
    /\ PipelineRun
    /\ run.track = "organization"
    /\ run.outcome = "Rejected"
    /\ IsBlank(run.fields.org_name)
    /\ IsBlank(run.fields.project_title)
    /\ ~run.checks.report
    /\ run.messages = <<Msg("missing", <<OrgLabels[1], OrgLabels[4]>>)>>

(***************************************************************************)
(* C11: in a poster run with every required field present, an abstract of  *)
(* at most 250 whitespace-separated words (exactly 250 included) passes    *)
(* the length check and the run goes on to the duplicate check and the     *)
(* insert; an abstract of 251 or more words is rejected with the length    *)
(* warning and nothing is called.  Words are counted, not characters.      *)
(***************************************************************************)
C11_WordLimitIsInclusive ==
    (PipelineRun /\ run.track = "poster" /\ run.validate_calls = 1
       /\ BlankChecked = {}) =>
      IF WordCount(run.fields.abstract) <= WORD_LIMIT
      THEN /\ run.outcome # "Rejected"
           /\ (run.outcome = "Duplicate" \/ run.insert_calls = 1)
      ELSE /\ run.outcome = "Rejected"
           /\ run.messages = <<Msg("abstract", <<>>)>>
           /\ NoCalls

C11_Witness ==
    /\ PipelineRun
    /\ run.track = "poster"
    /\ run.validate_calls = 1
    /\ WordCount(run.fields.abstract) = WORD_LIMIT
    /\ Len(run.fields.abstract) > WORD_LIMIT
    /\ run.insert_calls = 1
    /\ run.outcome = "Succeeded"

(***************************************************************************)
(* C12: in every application, after a successful storage write the          *)
(* uploader requests a signed URL; if signing fails it requests the public *)
(* URL for the same key and returns it; it returns the empty string only   *)
(* if both the signing request and the public-URL request fail.            *)
(***************************************************************************)
C12_AsClaimed ==
    \A s \in DOMAIN SlotFiles :
      LET sc == SlotFiles[s]
          calls == StorageCalls(sc)
      IN  (sc.file = "ok" /\ sc.put = "ok") =>
            /\ Len(calls) >= 2 /\ calls[2] = "create_signed_url"
            /\ sc.sign = "ok" => run.uploads[s] = SIGNED_URL
            /\ sc.sign = "err" =>
                 /\ Len(calls) = 3 /\ calls[3] = "get_public_url"
                 /\ sc.public = "ok" => run.uploads[s] = PUBLIC_URL
                 /\ run.uploads[s] = NO_URL => sc.public = "err"

(***************************************************************************)
(* C13: a call of send_email makes no SMTP connection attempt and returns  *)
(* false when the user, the password or the from-address is empty;         *)
(* otherwise it makes exactly one attempt and returns true if the session  *)
(* succeeds and false if any step of it fails.  It never makes a second    *)
(* attempt and no exception leaves the call.                               *)
(***************************************************************************)
C13_OneAttemptNoRaise ==
    run.kind = "mail" =>
      LET anyEmpty == \/ Len(run.cfg.SMTP_USER) = 0
                      \/ Len(run.cfg.SMTP_PASSWORD) = 0
                      \/ Len(run.cfg.SMTP_FROM_EMAIL) = 0
      IN  /\ ~run.result.raised
          /\ anyEmpty => (run.result.attempts = 0 /\ ~run.result.ok)
          /\ ~anyEmpty => /\ run.result.attempts = 1
                          /\ run.result.ok <=> run.smtp = "ok"

C13_Witness ==
    /\ run.kind = "mail"
    /\ Len(run.cfg.SMTP_USER) > 0
    /\ Len(run.cfg.SMTP_PASSWORD) > 0
    /\ Len(run.cfg.SMTP_FROM_EMAIL) > 0
    /\ run.smtp = "login_err"
    /\ run.result = [ok |-> FALSE, attempts |-> 1, raised |-> FALSE]

(***************************************************************************)
(* C14                                                                     *)
(***************************************************************************)
\* the listing is rendered only with the flag set, and a set flag stays set
\* unless the run is a logout
AdminFlagFrame ==
    /\ (run'.kind = "admin" /\ run'.listed) => session_state'.admin_ok
    /\ (session_state.admin_ok /\ ~session_state'.admin_ok) =>
          (run'.kind = "admin" /\ run'.logout)

\* C14 as claimed: the admin listing is rendered only if admin_ok is set;
\* the flag becomes set only by a login whose entered password equals the
\* configured secret in full; once set it stays set until a logout.
C14_AsClaimed ==
    [][/\ AdminFlagFrame
       /\ (~session_state.admin_ok /\ session_state'.admin_ok) =>
             /\ run'.kind = "admin" /\ run'.login
             /\ run'.pwd = run'.secret]_vars

(***************************************************************************)
(* C14 (amended): the admin listing is rendered only if admin_ok is set;   *)
(* the flag becomes set only by a login whose entered password equals the  *)
(* configured secret in full in the grants application, and equals it      *)
(* after leading and trailing whitespace is trimmed from the entry in the  *)
(* posters application; once set it stays set until a logout.              *)
(***************************************************************************)
C14_AdminGate ==
    [][/\ AdminFlagFrame
       /\ (~session_state.admin_ok /\ session_state'.admin_ok) =>
             /\ run'.kind = "admin" /\ run'.login
             /\ run'.secret # <<>>
             /\ IF run'.app = "grants"
                THEN run'.pwd = run'.secret
                ELSE \E i, j \in 0..Len(run'.pwd) :
                       /\ run'.pwd = [k \in 1..i |-> SP] \o run'.secret
                                        \o [k \in 1..j |-> SP]
                       /\ run'.secret = <<>> \/ (Head(run'.secret) # SP
                            /\ run'.secret[Len(run'.secret)] # SP)]_vars

C14_Witness ==
    /\ run.kind = "admin"
    /\ run.app = "posters"
    /\ run.login
    /\ run.pwd = <<SP, "a">>
    /\ run.secret = <<"a">>
    /\ session_state.admin_ok

(***************************************************************************)
(* Vocabulary of the poster duplicate check                                *)
(***************************************************************************)
\* a poster run in which a submit passed validation
ValidPosterSubmit(r) ==
    /\ r.kind = "final"
    /\ r.track = "poster"
    /\ r.validate_calls = 1
    /\ r.outcome # "Rejected"

\* the token of the submission of a valid poster run
RunToken(r) == submission_token(r.fields, r.files)

\* the identity columns of a persisted poster are those of the form f,
\* trimmed
SameIdentity(row, f) ==
    /\ row.category = f.category
    /\ row.lead_author = strip(f.lead_author)
    /\ row.contact_email = strip(f.contact_email)
    /\ row.title = strip(f.title)

(***************************************************************************)
(* C15: a valid poster submit whose token equals the token stored by the   *)
(* most recently persisted submission of the session makes no upload, no   *)
(* insert and no email and adds no record.  The check holds one slot: a    *)
(* valid submit with any other token reaches the insert and, if the insert *)
(* succeeds, adds a record, whatever earlier records exist; so submit A,   *)
(* submit B, submit A creates three records.                               *)
(***************************************************************************)
C15_Step ==
    (ValidPosterSubmit(run') /\ run' # run) =>
      IF RunToken(run') = session_state.last_poster_token
      THEN /\ run'.outcome = "Duplicate"
           /\ run'.attempted = <<>> /\ run'.put_calls = 0
           /\ run'.insert_calls = 0 /\ run'.email_calls = 0
           /\ posters' = posters
           /\ posters # <<>>
           /\ SameIdentity(posters[Len(posters)], run'.fields)
      ELSE /\ run'.insert_calls = 1
           /\ ~NoId(run'.rid) =>
                /\ Len(posters') = Len(posters) + 1
                /\ SameIdentity(posters'[Len(posters')], run'.fields)

C15_DuplicateCheckIsSingleSlot == [][C15_Step]_vars

C15_Witness ==
    /\ Len(posters) = 3
    /\ SameIdentity(posters[1], PosterA)
    /\ SameIdentity(posters[2], PosterB)
    /\ SameIdentity(posters[3], PosterA)
    /\ posters[1].abstract = posters[3].abstract
    /\ posters[1].coauthor1 = posters[3].coauthor1
    /\ posters[1].institution_lead = posters[3].institution_lead
    /\ {posters[i].id : i \in 1..3} = {1, 2, 3}

(***************************************************************************)
(* C16                                                                     *)
(***************************************************************************)
\* a run started by a submit action
SubmitRun == PipelineRun /\ run.click

MessageKindsOf(r) == {r.messages[i].kind : i \in 1..Len(r.messages)}

\* no failure of a collaborator leaves a run as an uncaught error, a run is
\* unfinished only between its form function and its tab handler, and the
\* message shown fits the outcome
RunsEndCleanly ==
    /\ SubmitRun => run.outcome # "Crashed"
    /\ pc \in {"org_main", "stu_main"} =>
          (run.outcome = "Pending" /\ run.submitted /\ run.kind = "form")
    /\ (SubmitRun /\ pc = "done") =>
          /\ run.outcome = "Succeeded" <=> "success" \in MessageKindsOf(run)
          /\ run.outcome = "Failed" <=> "error" \in MessageKindsOf(run)

\* C16 as claimed: every run started by a submit action ends in exactly one
\* of Rejected (closed window or validation failure), Failed or Succeeded,
\* under every combination of collaborator failures, and no collaborator
\* failure escapes as an uncaught error.
C16_AsClaimed ==
    /\ RunsEndCleanly
    /\ (SubmitRun /\ pc = "done") =>
          run.outcome \in {"Closed", "Rejected", "Failed", "Succeeded"}

(***************************************************************************)
(* C16 (amended): every run started by a submit action ends in exactly one *)
(* of Rejected (closed window or validation failure), Failed, Succeeded    *)
(* or, in the poster application, Duplicate (the submit repeats the last   *)
(* persisted one and is skipped), under every combination of failures of   *)
(* the storage put, URL signing, datastore insert and SMTP send; no        *)
(* collaborator failure escapes as an uncaught error.                      *)
(***************************************************************************)
C16_RunsEndInOneOutcome ==
    /\ RunsEndCleanly
    /\ (SubmitRun /\ pc = "done") =>
          /\ run.outcome \in {"Closed", "Rejected", "Failed", "Succeeded", "Duplicate"}
          /\ run.outcome = "Duplicate" => run.track = "poster"
          /\ run.outcome = "Closed" => run.track \in GrantTracks

C16_Witness ==
    /\ SubmitRun
    /\ pc = "done"
    /\ run.track = "poster"
    /\ run.outcome = "Duplicate"
    /\ MessageKindsOf(run) = {"duplicate"}

(***************************************************************************)
(* C17: the grants application has no idempotency check.  Every valid      *)
(* organization or student submit reaches the insert, whatever the table   *)
(* already holds; when the insert succeeds the table grows by one row      *)
(* whose identifier differs from every earlier one, and one confirmation   *)
(* email is sent.  Submitting the same data twice therefore creates two    *)
(* records with different identifiers and sends two emails.                *)
(***************************************************************************)
C17_Step ==
    /\ (pc \in {"org_main", "stu_main"} /\ run' # run) => run'.insert_calls = 1
    /\ (run'.track \in GrantTracks /\ run'.insert_calls = 1 /\ run' # run
          /\ ~NoId(run'.rid)) =>
          /\ Len(submissions') = Len(submissions) + 1
          /\ SubSeq(submissions', 1, Len(submissions)) = submissions
          /\ submissions'[Len(submissions')].id = run'.rid
          /\ \A i \in 1..Len(submissions) : submissions[i].id # run'.rid
          /\ run'.email_calls = 1

C17_NoIdempotencyInGrants == [][C17_Step]_vars

C17_Witness ==
    /\ Len(submissions) >= 2
    /\ submissions[1].id # submissions[2].id
    /\ Restrict(submissions[1], SubmissionColumns) =
          Restrict(submissions[2], SubmissionColumns)
    /\ run.track \in GrantTracks
    /\ run.rid = submissions[2].id
    /\ run.email_calls = 1

(***************************************************************************)
(* C18: a run calls send_email once if its insert returned an identifier   *)
(* and not at all otherwise, so over any sequence of runs the number of    *)
(* send_email calls is the number of runs whose insert returned an         *)
(* identifier.  The call is addressed to the applicant email of the        *)
(* persisted submission, with the fixed intake address as CC.              *)
(***************************************************************************)
C18_OneEmailPerPersistedRun ==
    PipelineRun =>
      /\ run.email_calls =
            IF run.insert_calls = 1 /\ ~NoId(run.rid) THEN 1 ELSE 0
      /\ run.email_calls = 1 =>
            /\ strip(run.email_to) =
                  IF run.track = "poster" THEN run.insert_data.contact_email
                  ELSE run.insert_data.email
            /\ ~IsBlank(run.email_to)
            /\ run.email_cc = "nhcma@lutinemanagement.com"

C18_Witness ==
    /\ PipelineRun
    /\ run.track = "poster"
    /\ run.insert_calls = 1
    /\ ~NoId(run.rid)
    /\ run.email_calls = 1
    /\ run.email_to = <<SP, "a">>
    /\ run.insert_data.contact_email = <<"a">>

(***************************************************************************)
(* C19: the session's last_poster_token is written only in a poster run    *)
(* whose insert returned an identifier, and then with that run's token.  A *)
(* run that is rejected, skipped as a duplicate, or whose insert fails     *)
(* leaves it unchanged; after a failed insert the stored token is not the  *)
(* token of the failed submission, so a retry of the same data is not      *)
(* skipped.                                                                *)
(***************************************************************************)
C19_Step ==
    /\ session_state'.last_poster_token # session_state.last_poster_token =>
          /\ ValidPosterSubmit(run')
          /\ run'.insert_calls = 1
          /\ ~NoId(run'.rid)
          /\ session_state'.last_poster_token = RunToken(run')
    /\ (run'.kind = "final" /\ run'.track = "poster" /\ run' # run
          /\ run'.outcome \in {"Rejected", "Duplicate", "Failed"}) =>
          session_state'.last_poster_token = session_state.last_poster_token
    /\ (ValidPosterSubmit(run') /\ run' # run /\ run'.outcome = "Failed") =>
          /\ run'.insert_calls = 1
          /\ session_state'.last_poster_token # RunToken(run')

C19_TokenWrittenOnlyOnSuccess == [][C19_Step]_vars

C19_Witness ==
    /\ ValidPosterSubmit(run)
    /\ run.outcome = "Failed"
    /\ posters # <<>>
    /\ session_state.last_poster_token # NoToken
    /\ session_state.last_poster_token # RunToken(run)

(***************************************************************************)
(* C20: a poster submit is skipped as a duplicate only if it is the same   *)
(* submission as the last persisted one: the skipped form agrees with the  *)
(* last persisted record in every field, so two consecutive valid          *)
(* submissions that differ in a field are both persisted.                  *)
(***************************************************************************)
C20_AsClaimed ==
    (ValidPosterSubmit(run) /\ run.outcome = "Duplicate") =>
      /\ posters # <<>>
      /\ LET last == posters[Len(posters)]
             f == run.fields
         IN  /\ SameIdentity(last, f)
             /\ last.abstract = strip(f.abstract)
             /\ last.coauthor1 = strip(f.co1)
             /\ last.coauthor2 = strip(f.co2)
             /\ last.coauthor3 = strip(f.co3)
             /\ last.institution_lead = strip(f.inst_lead)
             /\ last.institution_co1 = strip(f.inst_co1)
             /\ last.institution_co2 = strip(f.inst_co2)
             /\ last.institution_co3 = strip(f.inst_co3)

====
